---------------------------- MODULE Spec2Model ----------------------------
(***************************************************************************)
(* State-machine model of go-microservice-base:                            *)
(*   - pkg/middleware/jwt.go: the shared-secret and the JWKS bearer-token  *)
(*     middlewares, with the parts of golang-jwt/v5 and jwx/v2 they call;  *)
(*   - pkg/microservice/baseserver.go: BaseServer, its readiness flag,     *)
(*     its probes and its Start / Shutdown lifecycle.                      *)
(***************************************************************************)
EXTENDS Naturals, Sequences, FiniteSets, TLC

VARIABLES
    jwtSecret,   \* the secret NewLegacySharedSecretAuthMiddleware closed over
    jwks,        \* NewJWKSAuthMiddleware: "unbuilt", "ready" or "error"
    cache,       \* the key set jwk.Cache holds for jwksURL (NoSet before the prime)
    fetchLog,    \* the fetches so far: [lastGood: the last set fetched, last: outcome]
    req,         \* the request being served by a handler chain, or NoReq
    resp,        \* what the chain wrote for req: [status, body]
    nextCalls,   \* how many times the chain invoked next.ServeHTTP for req
    nextCtx,     \* the context next.ServeHTTP was given, or NoCtx
    seen,        \* what GetUserIDFromContext returned inside the downstream handler
    diag,        \* per request: was jwt.Parse invoked, which key reached Verify
    other,       \* a second request served at the same time: [req, resp, nextCalls, seen]
    HTTPPort,    \* BaseServer.HTTPPort
    isReady,     \* BaseServer.isReady
    setReadyLog, \* the SetReady calls so far: [last argument, was one true]
    readyChan,   \* BaseServer.readyChan: "nil", "open" or "closed"
    actualAddr,  \* BaseServer.actualAddr
    listener,    \* the address of the listener Start holds, or NoListener
    srv,         \* the http.Server: [listening, inShutdown]
    startPc,     \* where the (blocking) Start call stands
    starts,      \* how many Start calls were made
    shutdownPc,  \* where the Shutdown call stands: "idle" or "draining"
    shutdownRet, \* what the last Shutdown call returned
    inflight,    \* connections whose request is being served
    probe        \* the last probe response: [path, status, body, flag]

authVars == <<jwtSecret, jwks, cache, fetchLog, req, resp, nextCalls, nextCtx, seen, diag,
              other>>
serverVars == <<HTTPPort, isReady, setReadyLog, readyChan, actualAddr, listener, srv,
                startPc, starts, shutdownPc, shutdownRet, inflight, probe>>
vars == <<authVars, serverVars>>

---------------------------------------------------------------------------
(* Bounds of the model. *)

\* Key identifiers in rotation at the key-publication endpoint: "k1" .. "kN".
NumKids == 2
\* Start calls made on one BaseServer.
MaxStarts == 2
\* Connections served at the same time.
MaxInflight == 2

---------------------------------------------------------------------------
(* Go values: interface{} values carry their dynamic type. *)

Nil == [t |-> "nil"]
Str(s) == [t |-> "string", v |-> s]
Num(s) == [t |-> "number", v |-> s]
Bytes(s) == [t |-> "bytes", v |-> s]
RSAPub(i) == [t |-> "rsaPub", v |-> ToString(i)]

\* x.(string): the comma-ok type assertion.
IsString(x) == x.t = "string"

\* net/http status codes used by the code.
StatusOK == 200
StatusUnauthorized == 401
StatusServiceUnavailable == 503

---------------------------------------------------------------------------
(* Header values: a Go string, kept as its literal characters followed by  *)
(* an optional compact JWT (NoJWT when the string carries none).           *)

NoJWT == [t |-> "nojwt"]
GoString(chars, jwt) == [text |-> chars, jwt |-> jwt]
EmptyString == GoString(<<>>, NoJWT)

BearerPrefix == <<"B", "e", "a", "r", "e", "r", " ">>

\* Mutant of CutPrefix: the prefix is sliced off by its length, unchecked.
CutPrefixUnchecked(s, prefix) ==
    IF Len(s.text) >= Len(prefix)
    THEN [after |-> GoString(SubSeq(s.text, Len(prefix) + 1, Len(s.text)), s.jwt),
          found |-> TRUE]
    ELSE [after |-> s, found |-> FALSE]

\* strings.CutPrefix(s, prefix): (after, found).
CutPrefix(s, prefix) ==
    IF /\ Len(s.text) >= Len(prefix)
       /\ SubSeq(s.text, 1, Len(prefix)) = prefix
    THEN [after |-> GoString(SubSeq(s.text, Len(prefix) + 1, Len(s.text)), s.jwt),
          found |-> TRUE]
    ELSE [after |-> s, found |-> FALSE]

\* Mutant of HeaderGet: the last value of the header is read.
HeaderGetLast(values) == IF values = <<>> THEN EmptyString ELSE values[Len(values)]

\* http.Header.Get: the first value of the header, "" when there is none.
HeaderGet(values) == IF values = <<>> THEN EmptyString ELSE values[1]

---------------------------------------------------------------------------
(* Request contexts: a chain of (key, value) pairs, innermost last.        *)

\* const userContextKey contextKey = "userID": a value of a private type.
userContextKey == [type |-> "middleware.contextKey", name |-> "userID"]

\* context.WithValue(parent, key, val).
WithValue(parent, key, val) == Append(parent, [key |-> key, val |-> val])

\* ctx.Value(key): the innermost value stored under an equal key.
RECURSIVE CtxValue(_, _)
CtxValue(ctx, key) ==
    IF ctx = <<>> THEN Nil
    ELSE IF ctx[Len(ctx)].key = key THEN ctx[Len(ctx)].val
    ELSE CtxValue(SubSeq(ctx, 1, Len(ctx) - 1), key)

\* Mutant of GetUserIDFromContext: the value is looked up under the bare
\* string "userID".
GetUserIDFromContextBareKey(ctx) ==
    LET userID == CtxValue(ctx, [type |-> "string", name |-> "userID"])
    IN  [userID |-> IF IsString(userID) THEN userID.v ELSE "", ok |-> IsString(userID)]

GetUserIDFromContext(ctx) ==
    LET userID == CtxValue(ctx, userContextKey)
    IN  [userID |-> IF IsString(userID) THEN userID.v ELSE "", ok |-> IsString(userID)]

---------------------------------------------------------------------------
(* Tokens.  A compact JWT is kept decoded: the header's alg and kid, the   *)
(* sub claim, where now stands against exp / nbf, and the signature, which *)
(* is named by the algorithm that made it and the key that verifies it.    *)

KidName(i) == "k" \o ToString(i)
Kids == {KidName(i) : i \in 1..NumKids}

\* const testSecret of the tests, and the other secret they sign with.
testSecret == "my-test-secret"
Secrets == {testSecret, "a-different-secret"}
Subjects == {"user-123", "user-456"}

HMACAlgs == {"HS256", "HS384"}
RSAAlgs == {"RS256"}

AlgHeaders == {Str(a) : a \in HMACAlgs \cup RSAAlgs \cup {"none"}} \cup {Nil}
KidHeaders == {Str(k) : k \in Kids} \cup {Nil, Num("7")}
SubClaims == {Str(s) : s \in Subjects \cup {""}} \cup {Nil, Num("123")}
TimeClaims == {"unexpired", "expired", "notYetValid"}
Signatures ==
    {[alg |-> a, key |-> Bytes(s)] : a \in HMACAlgs, s \in Secrets}
    \cup {[alg |-> "RS256", key |-> RSAPub(i)] : i \in 1..NumKids}
    \cup {[alg |-> "none", key |-> Nil]}

JWTs == [alg : AlgHeaders, kid : KidHeaders, sub : SubClaims, time : TimeClaims,
         sig : Signatures]

\* jwt.GetSigningMethod(alg): the registered method's type, NoMethod when
\* the name is not registered.
NoMethod == "unregistered"
GetSigningMethod(alg) ==
    IF alg \in {"HS256", "HS384", "HS512"} THEN "SigningMethodHMAC"
    ELSE IF alg \in {"RS256", "RS384", "RS512"} THEN "SigningMethodRSA"
    ELSE IF alg = "none" THEN "signingMethodNone"
    ELSE NoMethod

\* Mutant of Verify: the signature is not compared.
VerifyUnchecked(alg, sig, key) ==
    LET method == GetSigningMethod(alg)
    IN  IF method = "SigningMethodHMAC"
        THEN IF key.t # "bytes" THEN Str("key is of invalid type") ELSE Nil
        ELSE IF method = "SigningMethodRSA"
        THEN IF key.t # "rsaPub" THEN Str("key is of invalid type") ELSE Nil
        ELSE Str("'none' signature type is not allowed")

\* token.Method.Verify(signingString, sig, key): nil or an error.
Verify(alg, sig, key) ==
    LET method == GetSigningMethod(alg)
    IN  IF method = "SigningMethodHMAC"
        THEN IF key.t # "bytes" THEN Str("key is of invalid type")
             ELSE IF sig.alg = alg /\ sig.key = key THEN Nil
             ELSE Str("signature is invalid")
        ELSE IF method = "SigningMethodRSA"
        THEN IF key.t # "rsaPub" THEN Str("key is of invalid type")
             ELSE IF sig.alg = alg /\ sig.key = key THEN Nil
             ELSE Str("crypto/rsa: verification error")
        ELSE Str("'none' signature type is not allowed")

\* Validator.Validate(claims): exp and nbf against the clock.
Validate(tok) ==
    IF tok.time = "expired" THEN Str("token is expired")
    ELSE IF tok.time = "notYetValid" THEN Str("token is not valid yet")
    ELSE Nil

\* What jwt.Parse hands back: the error, token.Valid, the claims, and (for
\* the record) the key that reached Verify.
ParseResult(err, valid, tok, key) ==
    [err |-> err, valid |-> valid, claimsOK |-> TRUE,
     sub |-> IF tok = NoJWT THEN Nil ELSE tok.sub, verifyKey |-> key]

---------------------------------------------------------------------------
(* Responses. *)

\* response.WriteJSONError(w, status, message): {"error": message}.
WriteJSONError(status, message) ==
    [status |-> status, body |-> [kind |-> "json", error |-> message]]

\* The protected handler of the tests: it writes 200 and "OK".
DownstreamResponse == [status |-> StatusOK, body |-> [kind |-> "text", text |-> "OK"]]

NoCtx == <<[key |-> [type |-> "none", name |-> ""], val |-> Nil]>>
NoDiag == [parsed |-> FALSE, verifyKey |-> Nil]

\* The handler returned after writing an error: next was not called.
Halt(response, d) == [resp |-> response, nextCalls |-> 0, nextCtx |-> NoCtx, diag |-> d]

\* next.ServeHTTP(w, r.WithContext(ctx)).
ServeNext(ctx, d) ==
    [resp |-> DownstreamResponse, nextCalls |-> 1, nextCtx |-> ctx, diag |-> d]

---------------------------------------------------------------------------
(* The key-set cache (jwx/v2 jwk.Cache) as the middleware uses it.  A key  *)
(* set is a set of (kid, key) entries with at most one entry per kid.      *)

NoSet == {[kid |-> "", key |-> Nil]}
KeySetOf(ids) == {[kid |-> KidName(i), key |-> RSAPub(i)] : i \in ids}

\* What the key-publication endpoint may publish when it is fetched: any
\* part of the rotation, or k1 re-issued for the newest key.
KeySets ==
    {KeySetOf(ids) : ids \in SUBSET (1..NumKids)}
    \cup {{[kid |-> KidName(1), key |-> RSAPub(NumKids)]}}

FetchError == {[kid |-> "", key |-> Str("fetch failed")]}

\* Mutant of CacheGet: every Get fetches the key source before answering.
CacheGetRefetches(c) ==
    IF c = NoSet THEN [set |-> {}, err |-> Str("resource not fetched"), fetch |-> TRUE]
    ELSE [set |-> c, err |-> Nil, fetch |-> TRUE]

\* cache.Get(ctx, jwksURL): the cached set.  Get goes to the key source on
\* the caller's path only while nothing was fetched for the URL (fetch), and
\* reports an error when that fetch fails.
CacheGet(c) ==
    IF c = NoSet THEN [set |-> {}, err |-> Str("resource not fetched"), fetch |-> TRUE]
    ELSE [set |-> c, err |-> Nil, fetch |-> FALSE]

\* keySet.LookupKeyID(keyID): (key, found).
LookupKeyID(keySet, keyID) ==
    IF \E e \in keySet : e.kid = keyID
    THEN [key |-> (CHOOSE e \in keySet : e.kid = keyID).key, found |-> TRUE]
    ELSE [key |-> Nil, found |-> FALSE]

---------------------------------------------------------------------------
(* The two key functions handed to jwt.Parse. *)

\* Mutant of JWKSKeyFunc: some key of the set is returned, whatever the kid.
JWKSKeyFuncAnyKey(c, tok) ==
    LET got == CacheGet(c) IN
    IF got.err # Nil
    THEN [key |-> Nil, err |-> Str("failed to get key set from cache: " \o got.err.v)]
    ELSE IF got.set = {}
    THEN [key |-> Nil, err |-> Str("no key in JWKS")]
    ELSE [key |-> (CHOOSE e \in got.set : TRUE).key, err |-> Nil]

\* jwt.go:57-78.
JWKSKeyFunc(c, tok) ==
    LET got == CacheGet(c) IN
    IF got.err # Nil
    THEN [key |-> Nil, err |-> Str("failed to get key set from cache: " \o got.err.v)]
    ELSE IF ~IsString(tok.kid)
    THEN [key |-> Nil, err |-> Str("token missing 'kid' header")]
    ELSE LET looked == LookupKeyID(got.set, tok.kid.v) IN
    IF ~looked.found
    THEN [key |-> Nil, err |-> Str("key with ID '" \o tok.kid.v \o "' not found in JWKS")]
    ELSE [key |-> looked.key, err |-> Nil]

\* Mutant of LegacyKeyFunc: the signing method is not looked at.
LegacyKeyFuncAnyMethod(secret, tok) == [key |-> Bytes(secret), err |-> Nil]

\* jwt.go:124-129.
LegacyKeyFunc(secret, tok) ==
    IF GetSigningMethod(tok.alg.v) # "SigningMethodHMAC"
    THEN [key |-> Nil, err |-> Str("unexpected signing method: " \o tok.alg.v)]
    ELSE [key |-> Bytes(secret), err |-> Nil]

\* The closures: each key function with the variables it captured.
LegacyClosure(secret) == [fn |-> "legacy", secret |-> secret]
JWKSClosure(c) == [fn |-> "jwks", cache |-> c]

\* keyFunc(token), as jwt.Parse calls it.
CallKeyFunc(keyFunc, tok) ==
    IF keyFunc.fn = "legacy" THEN LegacyKeyFunc(keyFunc.secret, tok)
    ELSE JWKSKeyFunc(keyFunc.cache, tok)

\* jwt.Parse(tokenString, keyFunc, options...) of golang-jwt/v5.  keyFunc is the
\* closure handed in; an empty validMethods stands for no WithValidMethods
\* option.
Parse(tokenString, keyFunc, validMethods) ==
    IF tokenString.text # <<>> \/ tokenString.jwt = NoJWT
    THEN ParseResult(Str("token is malformed: token contains an invalid number of segments"),
                     FALSE, NoJWT, Nil)
    ELSE LET tok == tokenString.jwt IN
    IF ~IsString(tok.alg)
    THEN ParseResult(Str("token is unverifiable: signing method (alg) is unspecified"),
                     FALSE, tok, Nil)
    ELSE IF GetSigningMethod(tok.alg.v) = NoMethod
    THEN ParseResult(Str("token is unverifiable: signing method (alg) is unavailable"),
                     FALSE, tok, Nil)
    ELSE IF validMethods # {} /\ tok.alg.v \notin validMethods
    THEN ParseResult(Str("token signature is invalid: signing method "
                         \o tok.alg.v \o " is invalid"), FALSE, tok, Nil)
    ELSE LET got == CallKeyFunc(keyFunc, tok) IN
    IF got.err # Nil
    THEN ParseResult(Str("token is unverifiable: error while executing keyfunc: "
                         \o got.err.v), FALSE, tok, Nil)
    ELSE LET verr == Verify(tok.alg.v, tok.sig, got.key) IN
    IF verr # Nil
    THEN ParseResult(Str("token signature is invalid: " \o verr.v), FALSE, tok, got.key)
    ELSE LET cerr == Validate(tok) IN
    IF cerr # Nil
    THEN ParseResult(Str("token has invalid claims: " \o cerr.v), FALSE, tok, got.key)
    ELSE ParseResult(Nil, TRUE, tok, got.key)

---------------------------------------------------------------------------
(* The handlers the two middlewares return (r is the request). *)

\* Mutant of LegacySharedSecretHandler: an empty subject is let through.
LegacyHandlerEmptySubject(secret, r) ==
    LET authHeader == HeaderGet(r.header) IN
    IF authHeader = EmptyString
    THEN Halt(WriteJSONError(StatusUnauthorized,
                             "Unauthorized: Missing Authorization header"), NoDiag)
    ELSE LET cut == CutPrefix(authHeader, BearerPrefix) IN
    IF ~cut.found
    THEN Halt(WriteJSONError(StatusUnauthorized,
                             "Unauthorized: Invalid token format"), NoDiag)
    ELSE LET p == Parse(cut.after, LegacyClosure(secret), {})
             d == [parsed |-> TRUE, verifyKey |-> p.verifyKey]
         IN
    IF p.err # Nil
    THEN Halt(WriteJSONError(StatusUnauthorized, "Unauthorized: Invalid token"), d)
    ELSE IF ~IsString(p.sub)
    THEN Halt(WriteJSONError(StatusUnauthorized,
                             "Unauthorized: Invalid user ID in token"), d)
    ELSE ServeNext(WithValue(r.ctx, userContextKey, p.sub), d)

\* jwt.go:111-148.
LegacySharedSecretHandler(secret, r) ==
    LET authHeader == HeaderGet(r.header) IN
    IF authHeader = EmptyString
    THEN Halt(WriteJSONError(StatusUnauthorized,
                             "Unauthorized: Missing Authorization header"), NoDiag)
    ELSE LET cut == CutPrefix(authHeader, BearerPrefix) IN
    IF ~cut.found
    THEN Halt(WriteJSONError(StatusUnauthorized,
                             "Unauthorized: Invalid token format"), NoDiag)
    ELSE LET p == Parse(cut.after, LegacyClosure(secret), {})
             d == [parsed |-> TRUE, verifyKey |-> p.verifyKey]
         IN
    IF p.err # Nil
    THEN Halt(WriteJSONError(StatusUnauthorized, "Unauthorized: Invalid token"), d)
    ELSE IF p.claimsOK /\ p.valid
    THEN LET userID == p.sub IN
         IF ~IsString(userID) \/ userID.v = ""
         THEN Halt(WriteJSONError(StatusUnauthorized,
                                  "Unauthorized: Invalid user ID in token"), d)
         ELSE ServeNext(WithValue(r.ctx, userContextKey, userID), d)
    ELSE Halt(WriteJSONError(StatusUnauthorized, "Unauthorized: Invalid token claims"), d)

\* jwt.go:41-100.
JWKSHandler(c, r) ==
    LET authHeader == HeaderGet(r.header) IN
    IF authHeader = EmptyString
    THEN Halt(WriteJSONError(StatusUnauthorized,
                             "Unauthorized: Missing Authorization header"), NoDiag)
    ELSE LET cut == CutPrefix(authHeader, BearerPrefix) IN
    IF ~cut.found
    THEN Halt(WriteJSONError(StatusUnauthorized,
                             "Unauthorized: Invalid token format"), NoDiag)
    ELSE LET p == Parse(cut.after, JWKSClosure(c), {"RS256"})
             d == [parsed |-> TRUE, verifyKey |-> p.verifyKey]
         IN
    IF p.err # Nil
    THEN Halt(WriteJSONError(StatusUnauthorized,
                             "Unauthorized: Invalid token (" \o p.err.v \o ")"), d)
    ELSE IF p.claimsOK /\ p.valid
    THEN LET userID == p.sub IN
         IF ~IsString(userID) \/ userID.v = ""
         THEN Halt(WriteJSONError(StatusUnauthorized,
                                  "Unauthorized: Invalid user ID in token"), d)
         ELSE ServeNext(WithValue(r.ctx, userContextKey, userID), d)
    ELSE Halt(WriteJSONError(StatusUnauthorized, "Unauthorized: Invalid token claims"), d)

---------------------------------------------------------------------------
(* Requests. *)

NoReq == [mw |-> "none", header |-> <<>>, ctx |-> <<>>]
NoResp == [status |-> 0, body |-> [kind |-> "none"]]
NotSeen == [userID |-> "", ok |-> FALSE, ran |-> FALSE]

\* The token of the tests: HS256 under testSecret, sub user-123, exp in an hour.
TestJWT ==
    [alg |-> Str("HS256"), kid |-> Nil, sub |-> Str("user-123"), time |-> "unexpired",
     sig |-> [alg |-> "HS256", key |-> Bytes(testSecret)]]

\* An RS256 token under the first key of the rotation.
TestRSAJWT ==
    [alg |-> Str("RS256"), kid |-> Str(KidName(1)), sub |-> Str("user-123"),
     time |-> "unexpired", sig |-> [alg |-> "RS256", key |-> RSAPub(1)]]

\* Header texts that are not "Bearer ": invalid-format, a lower-case scheme,
\* the scheme without its space, a leading space, no scheme at all.
OtherSchemes ==
    {<<"i", "n", "v", "a", "l", "i", "d", "-", "f", "o", "r", "m", "a", "t">>,
     <<"b", "e", "a", "r", "e", "r", " ">>,
     <<"B", "e", "a", "r", "e", "r">>,
     <<" ", "B", "e", "a", "r", "e", "r", " ">>,
     <<"B", "E", "A", "R", "E", "R", " ">>,
     <<>>}

AuthorizationValues ==
    {GoString(BearerPrefix, j) : j \in JWTs}
    \cup {GoString(t, j) : t \in OtherSchemes, j \in {NoJWT, TestJWT, TestRSAJWT}}
    \cup {GoString(BearerPrefix \o <<" ">>, j) : j \in {TestJWT, TestRSAJWT}}
    \cup {GoString(BearerPrefix \o <<"x", ".", "y">>, NoJWT), GoString(BearerPrefix, NoJWT)}

\* The Authorization header of a request: absent, or its list of values.
AuthorizationHeaders ==
    {<<>>}
    \cup {<<v>> : v \in AuthorizationValues}
    \cup {<<EmptyString, GoString(BearerPrefix, j)>> : j \in {TestJWT, TestRSAJWT}}

\* The requests of the middleware tests and their RS256 counterparts: no
\* header, a header of another format, a valid token, a token signed with
\* another secret or key, an expired token.
SampleJWTs ==
    {TestJWT, TestRSAJWT,
     [TestJWT EXCEPT !.sig = [alg |-> "HS256", key |-> Bytes("a-different-secret")]],
     [TestRSAJWT EXCEPT !.sig = [alg |-> "RS256", key |-> RSAPub(NumKids)]],
     [TestJWT EXCEPT !.time = "expired"],
     [TestRSAJWT EXCEPT !.sub = Str("user-456")]}

SampleHeaders ==
    {<<>>,
     <<GoString(<<"i", "n", "v", "a", "l", "i", "d", "-", "f", "o", "r", "m", "a", "t">>, NoJWT)>>}
    \cup {<<GoString(BearerPrefix, j)>> : j \in SampleJWTs}

\* The context a request arrives with: empty, or carrying a value another
\* package stored under the bare string "userID".
ForeignCtx == <<[key |-> [type |-> "string", name |-> "userID"], val |-> Str("intruder")]>>

Requests ==
    [mw : {"legacy", "jwks"}, header : AuthorizationHeaders, ctx : {<<>>}]
    \cup [mw : {"legacy", "jwks", "open"},
          header : {<<>>} \cup {<<GoString(BearerPrefix, j)>> : j \in {TestJWT, TestRSAJWT}},
          ctx : {<<>>, ForeignCtx}]

SampleRequests == [mw : {"legacy", "jwks"}, header : SampleHeaders, ctx : {<<>>}]

\* The handler chain mounted for the request: a protected route behind one
\* of the two middlewares, or the downstream handler mounted directly.
Chain(r) ==
    IF r.mw = "legacy" THEN LegacySharedSecretHandler(jwtSecret, r)
    ELSE IF r.mw = "jwks" THEN JWKSHandler(cache, r)
    ELSE ServeNext(r.ctx, NoDiag)

\* The downstream handler of the tests reads the identity from its context.
Downstream(out) ==
    IF out.nextCalls = 0 THEN NotSeen
    ELSE LET got == GetUserIDFromContext(out.nextCtx)
         IN  [userID |-> got.userID, ok |-> got.ok, ran |-> TRUE]

---------------------------------------------------------------------------
(* Actions of the authentication gate. *)

\* What fetchLog keeps of one call of the constructor or one refresh.
Logged(registerOK, fetched) ==
    IF ~registerOK THEN [fetchLog EXCEPT !.last = "notRegistered"]
    ELSE IF fetched = FetchError THEN [fetchLog EXCEPT !.last = "failed"]
    ELSE [lastGood |-> fetched, last |-> "ok"]

\* Mutant of NewJWKSAuthMiddleware: a failed first fetch is tolerated.
NewJWKSAuthMiddlewareLenient(registerOK, fetched) ==
    /\ jwks = "unbuilt"
    /\ IF ~registerOK
       THEN /\ jwks' = "error"
            /\ cache' = cache
       ELSE /\ jwks' = "ready"
            /\ cache' = IF fetched = FetchError THEN cache ELSE fetched
    /\ fetchLog' = Logged(registerOK, fetched)
    /\ UNCHANGED <<jwtSecret, req, resp, nextCalls, nextCtx, seen, diag, other, serverVars>>

\* NewJWKSAuthMiddleware, jwt.go:24-38: Register, then one synchronous fetch.
NewJWKSAuthMiddleware(registerOK, fetched) ==
    /\ jwks = "unbuilt"
    /\ IF ~registerOK \/ fetched = FetchError
       THEN /\ jwks' = "error"
            /\ cache' = cache
       ELSE /\ jwks' = "ready"
            /\ cache' = fetched
    /\ fetchLog' = Logged(registerOK, fetched)
    /\ UNCHANGED <<jwtSecret, req, resp, nextCalls, nextCtx, seen, diag, other, serverVars>>

\* Mutant of BackgroundRefresh: a failed fetch empties the cached set.
BackgroundRefreshDropsOnError(fetched) ==
    /\ jwks = "ready"
    /\ cache' = IF fetched = FetchError THEN {} ELSE fetched
    /\ fetchLog' = Logged(TRUE, fetched)
    /\ UNCHANGED <<jwtSecret, jwks, req, resp, nextCalls, nextCtx, seen, diag, other, serverVars>>

\* Mutant of BackgroundRefresh: the fetched keys are added to the cached set.
BackgroundRefreshInPlace(fetched) ==
    /\ jwks = "ready"
    /\ cache' = IF fetched = FetchError THEN cache ELSE cache \cup fetched
    /\ fetchLog' = Logged(TRUE, fetched)
    /\ UNCHANGED <<jwtSecret, jwks, req, resp, nextCalls, nextCtx, seen, diag, other, serverVars>>

\* The periodic refresh of jwk.Cache: a failed fetch keeps the cached set.
BackgroundRefresh(fetched) ==
    /\ jwks = "ready"
    /\ cache' = IF fetched = FetchError THEN cache ELSE fetched
    /\ fetchLog' = Logged(TRUE, fetched)
    /\ UNCHANGED <<jwtSecret, jwks, req, resp, nextCalls, nextCtx, seen, diag, other, serverVars>>

\* One request through its handler chain.
ServeHTTP(r) ==
    /\ req = NoReq
    /\ r.mw = "jwks" => jwks = "ready"
    /\ LET out == Chain(r) IN
        /\ req' = r
        /\ resp' = out.resp
        /\ nextCalls' = out.nextCalls
        /\ nextCtx' = out.nextCtx
        /\ diag' = out.diag
        /\ seen' = Downstream(out)
    /\ UNCHANGED <<jwtSecret, jwks, cache, fetchLog, other, serverVars>>

\* The request completes: its context and response are discarded.
Complete ==
    /\ req # NoReq
    /\ req' = NoReq
    /\ resp' = NoResp
    /\ nextCalls' = 0
    /\ nextCtx' = NoCtx
    /\ diag' = NoDiag
    /\ seen' = NotSeen
    /\ UNCHANGED <<jwtSecret, jwks, cache, fetchLog, other, serverVars>>

---------------------------------------------------------------------------
(* BaseServer. *)

\* The httpPort values a service may configure: "", "8080", ":8080", ":0".
ConfigPorts ==
    {<<>>, <<"8", "0", "8", "0">>, <<":", "8", "0", "8", "0">>, <<":", "0">>}

\* strings.HasPrefix(s, prefix).
HasPrefix(s, prefix) ==
    Len(s) >= Len(prefix) /\ SubSeq(s, 1, Len(prefix)) = prefix

\* NewBaseServer, baseserver.go:55-61: the listen address.
ListenAddr(httpPort) ==
    LET listenAddr == IF httpPort = <<>> THEN <<"8", "0", "8", "0">> ELSE httpPort
    IN  IF ~HasPrefix(listenAddr, <<":">>) THEN <<":">> \o listenAddr ELSE listenAddr

\* The ports the system may pick for a listener on port 0.
EphemeralPorts == {<<"4", "9", "1", "5", "2">>, <<"4", "9", "1", "5", "3">>}

NoListener == <<>>

\* listener.Addr().String() of a listener bound to addr: port 0 is replaced
\* by the port the system picked.
BoundAddr(addr, ephemeral) ==
    <<"[", ":", ":", "]">>
    \o (IF addr = <<":", "0">> THEN <<":">> \o ephemeral ELSE addr)

\* The port part of net.SplitHostPort(hostport); an error when there is no
\* colon to split at.
RECURSIVE LastColon(_, _)
LastColon(hostport, i) ==
    IF i = 0 THEN 0
    ELSE IF hostport[i] = ":" THEN i
    ELSE LastColon(hostport, i - 1)

SplitHostPort(hostport) ==
    LET i == LastColon(hostport, Len(hostport))
    IN  IF i = 0 THEN [port |-> <<>>, err |-> Str("missing port in address")]
        ELSE [port |-> SubSeq(hostport, i + 1, Len(hostport)), err |-> Nil]

\* BaseServer.GetHTTPPort, baseserver.go:143-151.
GetHTTPPort ==
    LET split == SplitHostPort(actualAddr)
    IN  IF split.err # Nil THEN HTTPPort ELSE <<":">> \o split.port

NoProbe == [path |-> "", status |-> 0, body |-> ""]

\* Mutant of healthzHandler: the liveness probe follows the readiness flag.
healthzHandlerGated ==
    IF isReady
    THEN [path |-> "/healthz", status |-> StatusOK, body |-> "OK"]
    ELSE [path |-> "/healthz", status |-> StatusServiceUnavailable, body |-> "OK"]

\* BaseServer.healthzHandler, baseserver.go:159-162.
healthzHandler == [path |-> "/healthz", status |-> StatusOK, body |-> "OK"]

\* Mutant of readyzHandler: the probe answers for a value that is not the
\* one stored in the flag.
readyzHandlerOtherValue ==
    IF ~isReady
    THEN [path |-> "/readyz", status |-> StatusOK, body |-> "READY"]
    ELSE [path |-> "/readyz", status |-> StatusServiceUnavailable, body |-> "NOT READY"]

\* Mutant of readyzHandler: the flag is not read.
readyzHandlerAlwaysReady == [path |-> "/readyz", status |-> StatusOK, body |-> "READY"]

\* BaseServer.readyzHandler, baseserver.go:166-174.
readyzHandler ==
    IF isReady
    THEN [path |-> "/readyz", status |-> StatusOK, body |-> "READY"]
    ELSE [path |-> "/readyz", status |-> StatusServiceUnavailable, body |-> "NOT READY"]

\* What the second request slot holds while no second request is served.
NoOther == [req |-> NoReq, resp |-> NoResp, nextCalls |-> 0, seen |-> NotSeen]

\* Mutant of ServeOther: the response writer is shared with a request that
\* failed and is still being served.
ServeOtherSharedWriter(r) ==
    /\ other.req = NoReq
    /\ r.mw = "jwks" => jwks = "ready"
    /\ LET out == Chain(r) IN
        other' = IF req # NoReq /\ nextCalls = 0
                 THEN [req |-> r, resp |-> resp, nextCalls |-> 0, seen |-> NotSeen]
                 ELSE [req |-> r, resp |-> out.resp, nextCalls |-> out.nextCalls,
                       seen |-> Downstream(out)]
    /\ UNCHANGED <<jwtSecret, jwks, cache, fetchLog, req, resp, nextCalls, nextCtx, seen, diag,
                   serverVars>>

\* A second request through its handler chain, while the first may still be
\* served: net/http runs every request in its own goroutine.
ServeOther(r) ==
    /\ other.req = NoReq
    /\ r.mw = "jwks" => jwks = "ready"
    /\ LET out == Chain(r) IN
        other' = [req |-> r, resp |-> out.resp, nextCalls |-> out.nextCalls,
                  seen |-> Downstream(out)]
    /\ UNCHANGED <<jwtSecret, jwks, cache, fetchLog, req, resp, nextCalls, nextCtx, seen, diag,
                   serverVars>>

\* The second request completes.
CompleteOther ==
    /\ other.req # NoReq
    /\ other' = NoOther
    /\ UNCHANGED <<jwtSecret, jwks, cache, fetchLog, req, resp, nextCalls, nextCtx, seen, diag,
                   serverVars>>

---------------------------------------------------------------------------
(* Actions of BaseServer. *)

\* BaseServer.SetReadyChannel, baseserver.go:89-91: called while no Start
\* call is running.
SetReadyChannel ==
    /\ startPc \in {"idle", "returnedNil", "returnedErr"}
    /\ readyChan' = "open"
    /\ UNCHANGED <<HTTPPort, isReady, setReadyLog, actualAddr, listener, srv, startPc, starts,
                   shutdownPc, shutdownRet, inflight, probe>>
    /\ UNCHANGED authVars

\* Mutant of SetReady: the flag is a latch, SetReady(false) does not clear it.
SetReadyLatch(ready) ==
    /\ startPc # "panicked"
    /\ isReady' = (isReady \/ ready)
    /\ setReadyLog' = [last |-> IF ready THEN "true" ELSE "false",
                       everTrue |-> setReadyLog.everTrue \/ ready]
    /\ UNCHANGED <<HTTPPort, readyChan, actualAddr, listener, srv, startPc, starts,
                   shutdownPc, shutdownRet, inflight, probe>>
    /\ UNCHANGED authVars

\* BaseServer.SetReady, baseserver.go:95-102; setReadyLog keeps the argument
\* of the call.
SetReady(ready) ==
    /\ startPc # "panicked"
    /\ isReady' = ready
    /\ setReadyLog' = [last |-> IF ready THEN "true" ELSE "false",
                       everTrue |-> setReadyLog.everTrue \/ ready]
    /\ UNCHANGED <<HTTPPort, readyChan, actualAddr, listener, srv, startPc, starts,
                   shutdownPc, shutdownRet, inflight, probe>>
    /\ UNCHANGED authVars

\* Mutant of StartListen: the ready channel is closed before net.Listen is
\* tried.
StartListenSignalsFirst(listenOK, ephemeral) ==
    /\ startPc \in {"idle", "returnedNil", "returnedErr"}
    /\ starts < MaxStarts
    /\ starts' = starts + 1
    /\ readyChan' = IF readyChan = "nil" THEN "nil" ELSE "closed"
    /\ IF ~listenOK
       THEN /\ startPc' = "returnedErr"
            /\ UNCHANGED listener
       ELSE /\ startPc' = "bound"
            /\ listener' = BoundAddr(HTTPPort, ephemeral)
    /\ UNCHANGED <<HTTPPort, isReady, setReadyLog, actualAddr, srv,
                   shutdownPc, shutdownRet, inflight, probe>>
    /\ UNCHANGED authVars

\* BaseServer.Start, baseserver.go:107-110: net.Listen; a failure is returned.
StartListen(listenOK, ephemeral) ==
    /\ startPc \in {"idle", "returnedNil", "returnedErr"}
    /\ starts < MaxStarts
    /\ starts' = starts + 1
    /\ IF ~listenOK
       THEN /\ startPc' = "returnedErr"
            /\ UNCHANGED listener
       ELSE /\ startPc' = "bound"
            /\ listener' = BoundAddr(HTTPPort, ephemeral)
    /\ UNCHANGED <<HTTPPort, isReady, setReadyLog, readyChan, actualAddr, srv,
                   shutdownPc, shutdownRet, inflight, probe>>
    /\ UNCHANGED authVars

\* BaseServer.Start, baseserver.go:112-114: the bound address is recorded.
StartRecord ==
    /\ startPc = "bound"
    /\ actualAddr' = listener
    /\ startPc' = "recorded"
    /\ UNCHANGED <<HTTPPort, isReady, setReadyLog, readyChan, listener, srv, starts,
                   shutdownPc, shutdownRet, inflight, probe>>
    /\ UNCHANGED authVars

\* Mutant of StartSignal: the channel is closed as soon as the listener is
\* bound, before the address is recorded.
StartSignalBeforeRecord ==
    /\ startPc = "bound"
    /\ IF readyChan = "closed"
       THEN /\ startPc' = "panicked"
            /\ UNCHANGED readyChan
       ELSE /\ startPc' = "signalled"
            /\ readyChan' = IF readyChan = "nil" THEN "nil" ELSE "closed"
    /\ UNCHANGED <<HTTPPort, isReady, setReadyLog, actualAddr, listener, srv, starts,
                   shutdownPc, shutdownRet, inflight, probe>>
    /\ UNCHANGED authVars

\* BaseServer.Start, baseserver.go:118-120: close(s.readyChan) when one is
\* registered; closing a closed channel panics.
StartSignal ==
    /\ startPc = "recorded"
    /\ IF readyChan = "closed"
       THEN /\ startPc' = "panicked"
            /\ UNCHANGED readyChan
       ELSE /\ startPc' = "signalled"
            /\ readyChan' = IF readyChan = "nil" THEN "nil" ELSE "closed"
    /\ UNCHANGED <<HTTPPort, isReady, setReadyLog, actualAddr, listener, srv, starts,
                   shutdownPc, shutdownRet, inflight, probe>>
    /\ UNCHANGED authVars

\* BaseServer.Start, baseserver.go:122: httpServer.Serve(listener) starts to
\* accept; after a Shutdown it closes the listener and returns
\* http.ErrServerClosed at once, which Start turns into nil (123-128).
StartServe ==
    /\ startPc = "signalled"
    /\ IF srv.inShutdown
       THEN /\ startPc' = "returnedNil"
            /\ listener' = NoListener
            /\ UNCHANGED srv
       ELSE /\ startPc' = "serving"
            /\ srv' = [srv EXCEPT !.listening = TRUE]
            /\ UNCHANGED listener
    /\ UNCHANGED <<HTTPPort, isReady, setReadyLog, readyChan, actualAddr, starts,
                   shutdownPc, shutdownRet, inflight, probe>>
    /\ UNCHANGED authVars

\* Mutant of StartReturn: http.ErrServerClosed is returned like any error.
StartReturnReportsClosed(serveFailed) ==
    /\ startPc = "serving"
    /\ serveFailed \/ srv.inShutdown
    /\ startPc' = "returnedErr"
    /\ srv' = [srv EXCEPT !.listening = FALSE]
    /\ listener' = NoListener
    /\ UNCHANGED <<HTTPPort, isReady, setReadyLog, readyChan, actualAddr, starts,
                   shutdownPc, shutdownRet, inflight, probe>>
    /\ UNCHANGED authVars

\* Serve returns, baseserver.go:122-128: http.ErrServerClosed after a
\* Shutdown (Start returns nil), any other error is returned.
StartReturn(serveFailed) ==
    /\ startPc = "serving"
    /\ serveFailed \/ srv.inShutdown
    /\ startPc' = IF srv.inShutdown THEN "returnedNil" ELSE "returnedErr"
    /\ srv' = [srv EXCEPT !.listening = FALSE]
    /\ listener' = NoListener
    /\ UNCHANGED <<HTTPPort, isReady, setReadyLog, readyChan, actualAddr, starts,
                   shutdownPc, shutdownRet, inflight, probe>>
    /\ UNCHANGED authVars

\* The listener accepts a connection and its request is being served.
Accept ==
    /\ startPc = "serving"
    /\ srv.listening
    /\ inflight < MaxInflight
    /\ inflight' = inflight + 1
    /\ UNCHANGED <<HTTPPort, isReady, setReadyLog, readyChan, actualAddr, listener, srv,
                   startPc, starts, shutdownPc, shutdownRet, probe>>
    /\ UNCHANGED authVars

\* A request being served runs to completion.
Finish ==
    /\ startPc # "panicked"
    /\ inflight > 0
    /\ inflight' = inflight - 1
    /\ UNCHANGED <<HTTPPort, isReady, setReadyLog, readyChan, actualAddr, listener, srv,
                   startPc, starts, shutdownPc, shutdownRet, probe>>
    /\ UNCHANGED authVars

\* Mutant of ShutdownBegin: Shutdown also marks the service not ready.
ShutdownBeginClearsReady ==
    /\ startPc # "panicked"
    /\ shutdownPc = "idle"
    /\ shutdownPc' = "draining"
    /\ shutdownRet' = "none"
    /\ srv' = [listening |-> FALSE, inShutdown |-> TRUE]
    /\ isReady' = FALSE
    /\ UNCHANGED <<HTTPPort, setReadyLog, readyChan, actualAddr, listener,
                   startPc, starts, inflight, probe>>
    /\ UNCHANGED authVars

\* BaseServer.Shutdown, baseserver.go:132-135: httpServer.Shutdown marks the
\* server as shutting down and closes the listeners Serve accepts on.
ShutdownBegin ==
    /\ startPc # "panicked"
    /\ shutdownPc = "idle"
    /\ shutdownPc' = "draining"
    /\ shutdownRet' = "none"
    /\ srv' = [listening |-> FALSE, inShutdown |-> TRUE]
    /\ UNCHANGED <<HTTPPort, isReady, setReadyLog, readyChan, actualAddr, listener,
                   startPc, starts, inflight, probe>>
    /\ UNCHANGED authVars

\* Mutant of ShutdownReturn: nil is returned without waiting.
ShutdownReturnNoWait(deadlineExpired) ==
    /\ startPc # "panicked"
    /\ shutdownPc = "draining"
    /\ shutdownPc' = "idle"
    /\ shutdownRet' = IF deadlineExpired THEN "err" ELSE "nil"
    /\ UNCHANGED <<HTTPPort, isReady, setReadyLog, readyChan, actualAddr, listener, srv,
                   startPc, starts, inflight, probe>>
    /\ UNCHANGED authVars

\* BaseServer.Shutdown, baseserver.go:135-139: httpServer.Shutdown returns
\* nil once no connection is serving a request, and ctx.Err() when the
\* context is done before that.
ShutdownReturn(deadlineExpired) ==
    /\ startPc # "panicked"
    /\ shutdownPc = "draining"
    /\ inflight = 0 \/ deadlineExpired
    /\ shutdownPc' = "idle"
    /\ shutdownRet' = IF inflight = 0 THEN "nil" ELSE "err"
    /\ UNCHANGED <<HTTPPort, isReady, setReadyLog, readyChan, actualAddr, listener, srv,
                   startPc, starts, inflight, probe>>
    /\ UNCHANGED authVars

\* GET /healthz.
Healthz ==
    /\ startPc # "panicked"
    /\ probe' = healthzHandler
    /\ UNCHANGED <<HTTPPort, isReady, setReadyLog, readyChan, actualAddr, listener, srv,
                   startPc, starts, shutdownPc, shutdownRet, inflight>>
    /\ UNCHANGED authVars

\* GET /readyz.
Readyz ==
    /\ startPc # "panicked"
    /\ probe' = readyzHandler
    /\ UNCHANGED <<HTTPPort, isReady, setReadyLog, readyChan, actualAddr, listener, srv,
                   startPc, starts, shutdownPc, shutdownRet, inflight>>
    /\ UNCHANGED authVars

---------------------------------------------------------------------------
(* Specifications. *)

\* NewBaseServer and NewLegacySharedSecretAuthMiddleware have run; the JWKS
\* middleware is not built yet.
Init ==
    /\ jwtSecret = testSecret
    /\ jwks = "unbuilt"
    /\ cache = NoSet
    /\ fetchLog = [lastGood |-> NoSet, last |-> "none"]
    /\ req = NoReq
    /\ resp = NoResp
    /\ nextCalls = 0
    /\ nextCtx = NoCtx
    /\ seen = NotSeen
    /\ diag = NoDiag
    /\ other = NoOther
    /\ \E httpPort \in ConfigPorts : HTTPPort = ListenAddr(httpPort)
    /\ isReady = FALSE
    /\ setReadyLog = [last |-> "none", everTrue |-> FALSE]
    /\ readyChan = "nil"
    /\ actualAddr = <<>>
    /\ listener = NoListener
    /\ srv = [listening |-> FALSE, inShutdown |-> FALSE]
    /\ startPc = "idle"
    /\ starts = 0
    /\ shutdownPc = "idle"
    /\ shutdownRet = "none"
    /\ inflight = 0
    /\ probe = NoProbe

NextAuth ==
    \/ \E registerOK \in BOOLEAN, fetched \in KeySets \cup {FetchError} :
           NewJWKSAuthMiddleware(registerOK, fetched)
    \/ \E fetched \in KeySets \cup {FetchError} : BackgroundRefresh(fetched)
    \/ req = NoReq /\ \E r \in Requests : ServeHTTP(r)
    \/ Complete

NextServer ==
    \/ SetReadyChannel
    \/ \E ready \in BOOLEAN : SetReady(ready)
    \/ \E listenOK \in BOOLEAN, ephemeral \in EphemeralPorts :
           StartListen(listenOK, ephemeral)
    \/ StartRecord
    \/ StartSignal
    \/ StartServe
    \/ \E serveFailed \in BOOLEAN : StartReturn(serveFailed)
    \/ Accept
    \/ Finish
    \/ ShutdownBegin
    \/ \E deadlineExpired \in BOOLEAN : ShutdownReturn(deadlineExpired)
    \/ Healthz
    \/ Readyz

NextOther ==
    \/ other.req = NoReq /\ \E r \in SampleRequests : ServeOther(r)
    \/ CompleteOther

\* Two requests served at the same time by the authentication gate.
NextConcurrent ==
    \/ \E registerOK \in BOOLEAN, fetched \in KeySets \cup {FetchError} :
           NewJWKSAuthMiddleware(registerOK, fetched)
    \/ \E fetched \in KeySets \cup {FetchError} : BackgroundRefresh(fetched)
    \/ req = NoReq /\ \E r \in SampleRequests : ServeHTTP(r)
    \/ Complete
    \/ NextOther

\* A service that mounts the JWKS gate on a BaseServer: the gate with the
\* requests of the tests, and the lifecycle of the server.
NextService ==
    \/ \E registerOK \in BOOLEAN, fetched \in KeySets \cup {FetchError} :
           NewJWKSAuthMiddleware(registerOK, fetched)
    \/ \E fetched \in KeySets \cup {FetchError} : BackgroundRefresh(fetched)
    \/ req = NoReq /\ \E r \in SampleRequests : ServeHTTP(r)
    \/ Complete
    \/ \E listenOK \in BOOLEAN, ephemeral \in EphemeralPorts :
           StartListen(listenOK, ephemeral)
    \/ StartRecord
    \/ StartSignal
    \/ StartServe
    \/ \E serveFailed \in BOOLEAN : StartReturn(serveFailed)
    \/ ShutdownBegin
    \/ \E deadlineExpired \in BOOLEAN : ShutdownReturn(deadlineExpired)

Next == NextAuth \/ NextServer \/ NextOther

\* The authentication gate of a service on the default port.
InitAuth == Init /\ HTTPPort = ListenAddr(<<>>)

\* The authentication gate alone, the server alone, and both together.
SpecAuth == InitAuth /\ [][NextAuth]_vars
SpecConcurrent == InitAuth /\ [][NextConcurrent]_vars
SpecService == InitAuth /\ [][NextService]_vars
SpecServer == Init /\ [][NextServer]_vars

\* The server with the goroutine that runs Start making progress: Serve is
\* reached once the channel is signalled, and Serve returns once Shutdown
\* has closed the server.
SpecServerFair ==
    /\ SpecServer
    /\ WF_vars(StartServe)
    /\ WF_vars(StartReturn(FALSE))
Spec == Init /\ [][Next]_vars

---------------------------------------------------------------------------
(* Vocabulary of the properties, stated on the request and not on the way  *)
(* the handlers work through it.                                           *)

\* The step in which a handler chain serves a request.
Served == req = NoReq /\ req' # NoReq

\* The request went to a route behind one of the two middlewares.
Gated(r) == r.mw \in {"legacy", "jwks"}

\* The value Header.Get reads is absent or empty.
NoAuthorization(r) == r.header = <<>> \/ r.header[1] = EmptyString

\* v is the literal "Bearer " followed by anything.
StartsWithBearer(v) ==
    /\ Len(v.text) >= Len(BearerPrefix)
    /\ \A i \in 1..Len(BearerPrefix) : v.text[i] = BearerPrefix[i]

\* The JWT presented as "Bearer <jwt>", NoJWT when the request has none.
BearerJWT(r) ==
    IF NoAuthorization(r) THEN NoJWT
    ELSE IF r.header[1].text = BearerPrefix THEN r.header[1].jwt
    ELSE NoJWT

Unexpired(j) == j.time = "unexpired"
NonEmptySubject(j) == j.sub.t = "string" /\ j.sub.v # ""
HMACFamily == {Str("HS256"), Str("HS384"), Str("HS512")}

\* j declares a symmetric algorithm and is signed with it under secret.
SignedWithSecret(j, secret) ==
    /\ j.alg \in HMACFamily
    /\ j.sig = [alg |-> j.alg.v, key |-> Bytes(secret)]

\* j declares RS256, names a key of keySet by its kid, and is signed with
\* RS256 under that key.
SignedWithKeyOf(j, keySet) ==
    /\ j.alg = Str("RS256")
    /\ j.kid.t = "string"
    /\ \E e \in keySet :
        /\ e.kid = j.kid.v
        /\ j.sig = [alg |-> "RS256", key |-> e.key]

\* The request presents a JWT signed for the middleware of its route.
ValidlySigned(r, secret, keySet) ==
    /\ Gated(r)
    /\ BearerJWT(r) # NoJWT
    /\ IF r.mw = "legacy" THEN SignedWithSecret(BearerJWT(r), secret)
       ELSE SignedWithKeyOf(BearerJWT(r), keySet)

\* Every check of the gate passes for the request.
AllChecksPass(r, secret, keySet) ==
    /\ ValidlySigned(r, secret, keySet)
    /\ Unexpired(BearerJWT(r))
    /\ NonEmptySubject(BearerJWT(r))

Unauthorized(response) ==
    /\ response.status = StatusUnauthorized
    /\ response.body.kind = "json"
    /\ response.body.error # ""

\* The response carries status 401.
Rejected401(response) == response.status = StatusUnauthorized

UnauthorizedWith(response, message) ==
    response = [status |-> StatusUnauthorized,
                body |-> [kind |-> "json", error |-> message]]

---------------------------------------------------------------------------
(* C1 *)

\* C1: behind either middleware a request that fails any check is answered
\* 401 with a JSON {"error": ...} body and next is not invoked; next is
\* invoked, once, only for a request that passes every check.
C1_FailureHaltsChain ==
    [][(Served /\ Gated(req')) =>
          /\ nextCalls' \in {0, 1}
          /\ nextCalls' = 1 => AllChecksPass(req', jwtSecret, cache)
          /\ ~AllChecksPass(req', jwtSecret, cache) =>
                /\ nextCalls' = 0
                /\ ~seen'.ran
                /\ Unauthorized(resp')]_vars

\* A JWKS request whose token was parsed and refused, and the chain halted.
C1_Witness ==
    /\ req.mw = "jwks"
    /\ diag.parsed
    /\ nextCalls = 0
    /\ Unauthorized(resp)

---------------------------------------------------------------------------
(* C2 *)

\* What the downstream handler finds when the gate attached identity sub.
SeenIdentity(sub) == [userID |-> sub, ok |-> TRUE, ran |-> TRUE]

\* C2, as amended: a request presenting a token that is validly signed for
\* its middleware, currently valid by its time claims and carrying a
\* non-empty string subject is authenticated: the downstream handler runs
\* and GetUserIDFromContext gives it (sub, true).  On a route without the
\* gate, where no identity was attached, GetUserIDFromContext gives ok = false.
C2_ValidTokenAuthenticates ==
    [][Served =>
          /\ AllChecksPass(req', jwtSecret, cache) =>
                /\ nextCalls' = 1
                /\ resp' = DownstreamResponse
                /\ seen' = SeenIdentity(BearerJWT(req').sub.v)
          /\ req'.mw = "open" => seen'.ran /\ ~seen'.ok]_vars

\* C2 as stated: validly signed and a non-empty subject are enough.
C2_AsStated ==
    [][(/\ Served
        /\ ValidlySigned(req', jwtSecret, cache)
        /\ NonEmptySubject(BearerJWT(req'))) =>
          /\ nextCalls' = 1
          /\ seen' = SeenIdentity(BearerJWT(req').sub.v)]_vars

\* A JWKS request was authenticated as user-456.
C2_Witness ==
    /\ req.mw = "jwks"
    /\ nextCalls = 1
    /\ seen = SeenIdentity("user-456")

---------------------------------------------------------------------------
(* C3 *)

\* The presented token is signed with a key that is not the configured
\* secret, or not the key the cached key set holds for the token's kid.
SignedWithOtherKey(r, secret, keySet) ==
    /\ Gated(r)
    /\ BearerJWT(r) # NoJWT
    /\ IF r.mw = "legacy" THEN BearerJWT(r).sig.key # Bytes(secret)
       ELSE \A e \in keySet :
                BearerJWT(r).kid = Str(e.kid) => e.key # BearerJWT(r).sig.key

\* C3: a token signed with another secret or key is refused with 401 (body
\* "Unauthorized: Invalid token" from the shared-secret middleware), no
\* context is derived and the downstream handler does not run.
C3_OtherKeyRejected ==
    [][(Served /\ SignedWithOtherKey(req', jwtSecret, cache)) =>
          /\ Rejected401(resp')
          /\ nextCalls' = 0
          /\ nextCtx' = NoCtx
          /\ ~seen'.ran
          /\ req'.mw = "legacy" =>
                UnauthorizedWith(resp', "Unauthorized: Invalid token")]_vars

\* The token of the tests, signed with a-different-secret, was refused.
C3_Witness ==
    /\ req.mw = "legacy"
    /\ BearerJWT(req) = [TestJWT EXCEPT !.sig.key = Bytes("a-different-secret")]
    /\ UnauthorizedWith(resp, "Unauthorized: Invalid token")

---------------------------------------------------------------------------
(* C4 *)

\* C4: a request without an Authorization value is answered 401 with
\* exactly "Unauthorized: Missing Authorization header", and jwt.Parse is
\* not reached.
C4_MissingHeader ==
    (Gated(req) /\ NoAuthorization(req)) =>
        /\ UnauthorizedWith(resp, "Unauthorized: Missing Authorization header")
        /\ ~diag.parsed
        /\ nextCalls = 0

\* A request whose first Authorization value is empty, a token following it.
C4_Witness ==
    /\ Gated(req)
    /\ Len(req.header) = 2
    /\ req.header[1] = EmptyString
    /\ resp.status = StatusUnauthorized

---------------------------------------------------------------------------
(* C5 *)

\* C5: a non-empty Authorization value that does not start with the exact
\* prefix "Bearer " is answered 401 with "Unauthorized: Invalid token
\* format", and jwt.Parse is not reached.
C5_MalformedHeader ==
    (Gated(req) /\ ~NoAuthorization(req) /\ ~StartsWithBearer(req.header[1])) =>
        /\ UnauthorizedWith(resp, "Unauthorized: Invalid token format")
        /\ ~diag.parsed
        /\ nextCalls = 0

\* "bearer <the token of the tests>" was refused for its format.
C5_Witness ==
    /\ req.mw = "legacy"
    /\ req.header = <<GoString(<<"b", "e", "a", "r", "e", "r", " ">>, TestJWT)>>
    /\ UnauthorizedWith(resp, "Unauthorized: Invalid token format")

---------------------------------------------------------------------------
(* C6 *)

\* The messages the handlers hold as literals.
FixedMessages ==
    {"Unauthorized: Missing Authorization header",
     "Unauthorized: Invalid token format",
     "Unauthorized: Invalid token",
     "Unauthorized: Invalid user ID in token",
     "Unauthorized: Invalid token claims"}

\* C6: the body of every refusal, from either middleware, is one of a fixed
\* set of messages; no text of the parsing library's or the key lookup's
\* error is in it.
C6_FixedMessages ==
    (Gated(req) /\ nextCalls = 0) => resp.body.error \in FixedMessages

---------------------------------------------------------------------------
(* C7 *)

\* C7: the shared-secret middleware refuses with 401 every token whose alg
\* is not of the HMAC family, the secret never reaches Verify for it, and
\* no context is derived.
C7_OnlyHMAC ==
    (/\ req.mw = "legacy"
     /\ BearerJWT(req) # NoJWT
     /\ BearerJWT(req).alg \notin HMACFamily) =>
        /\ Rejected401(resp)
        /\ diag.verifyKey = Nil
        /\ nextCalls = 0
        /\ nextCtx = NoCtx

\* A token declaring RS256 was parsed and refused by the shared-secret
\* middleware.
C7_Witness ==
    /\ req.mw = "legacy"
    /\ BearerJWT(req) # NoJWT
    /\ BearerJWT(req).alg = Str("RS256")
    /\ diag.parsed
    /\ Rejected401(resp)

---------------------------------------------------------------------------
(* C8 *)

\* C8: the JWKS middleware lets a request through only if its token
\* declares RS256, carries a string kid found in the cached key set, and is
\* signed under the key of that kid; a request failing any of these is
\* answered 401 and the downstream handler does not run.
C8_JWKSAccepts ==
    [][(Served /\ req'.mw = "jwks") =>
          /\ nextCalls' = 1 =>
                /\ BearerJWT(req') # NoJWT
                /\ SignedWithKeyOf(BearerJWT(req'), cache)
          /\ ~(BearerJWT(req') # NoJWT /\ SignedWithKeyOf(BearerJWT(req'), cache)) =>
                /\ Rejected401(resp')
                /\ nextCalls' = 0
                /\ ~seen'.ran]_vars

\* A token naming k2 was let through while k2 was in the cached set.
C8_Witness ==
    /\ req.mw = "jwks"
    /\ nextCalls = 1
    /\ BearerJWT(req) # NoJWT
    /\ BearerJWT(req).kid = Str(KidName(2))

---------------------------------------------------------------------------
(* C9 *)

\* C9: a token whose sub is absent, not a string or empty is refused with
\* 401, and whenever the downstream handler runs behind the gate the
\* identity it finds is a non-empty string.
C9_IdentityNonEmpty ==
    /\ (Gated(req) /\ seen.ran) => (seen.ok /\ seen.userID # "")
    /\ (Gated(req) /\ BearerJWT(req) # NoJWT /\ ~NonEmptySubject(BearerJWT(req))) =>
          (Rejected401(resp) /\ nextCalls = 0)

\* A token that verifies, with sub "", was refused for its user ID.
C9_Witness ==
    /\ req.mw = "legacy"
    /\ BearerJWT(req) = [TestJWT EXCEPT !.sub = Str("")]
    /\ UnauthorizedWith(resp, "Unauthorized: Invalid user ID in token")

---------------------------------------------------------------------------
(* C10 *)

\* C10: a GET /readyz is answered 200 READY when the stored flag is true
\* at that moment and 503 NOT READY when it is false.
C10_ReadyzReportsFlag ==
    [][(probe' # probe /\ probe'.path = "/readyz") =>
          IF isReady
          THEN probe'.status = StatusOK /\ probe'.body = "READY"
          ELSE probe'.status = StatusServiceUnavailable /\ probe'.body = "NOT READY"]_vars

\* The probe answered 503 after the flag was set back to false while the
\* server was serving.
C10_Witness ==
    /\ probe.path = "/readyz"
    /\ probe.status = StatusServiceUnavailable
    /\ ~isReady
    /\ startPc = "serving"
    /\ srv.listening

---------------------------------------------------------------------------
(* C11 *)

\* The step in which GET /readyz is answered with a new response.
ReadyzAnswered == probe' # probe /\ probe'.path = "/readyz"

\* The readiness flag as the SetReady calls so far leave it: not ready
\* before the first call, the argument of the most recent call after it.
LastSetReady == setReadyLog.last = "true"

\* C11: the readiness flag starts not ready and always equals the argument
\* of the most recent SetReady call; /readyz answers 200 only after a
\* SetReady(true), and answers 200 or 503 as the most recent call said.
C11_ReadinessFollowsSetReady ==
    /\ [](isReady = LastSetReady)
    /\ []((probe.path = "/readyz" /\ probe.status = StatusOK) => setReadyLog.everTrue)
    /\ [][ReadyzAnswered =>
            probe'.status = IF LastSetReady THEN StatusOK ELSE StatusServiceUnavailable]_vars

\* Ready, then set back to not ready, and /readyz answers 503.
C11_Witness ==
    /\ setReadyLog = [last |-> "false", everTrue |-> TRUE]
    /\ ~isReady
    /\ probe = [path |-> "/readyz", status |-> StatusServiceUnavailable, body |-> "NOT READY"]

---------------------------------------------------------------------------
(* C12 *)

\* C12: GET /healthz is answered 200 "OK" whatever the readiness flag is and
\* whatever SetReady calls were made.
C12_HealthzAlwaysOK ==
    probe.path = "/healthz" => probe.status = StatusOK /\ probe.body = "OK"

\* /healthz answered while the flag is down after having been up.
C12_Witness ==
    /\ probe.path = "/healthz"
    /\ probe.status = StatusOK
    /\ ~isReady
    /\ setReadyLog.everTrue

---------------------------------------------------------------------------
(* C13 *)

\* A key set was fetched at least once.
Primed == fetchLog.lastGood # NoSet

\* The step in which NewJWKSAuthMiddleware returns.
Constructed == jwks = "unbuilt" /\ jwks' # "unbuilt"

\* C13: when Register or the first fetch fails, NewJWKSAuthMiddleware
\* returns an error and no middleware, and nothing is retried; a request is
\* served through the JWKS gate only when its key set was primed.
C13_FailFast ==
    /\ [][Constructed =>
            IF fetchLog'.last = "ok"
            THEN jwks' = "ready" /\ cache' = fetchLog'.lastGood
            ELSE jwks' = "error" /\ cache' = NoSet]_vars
    /\ [][jwks = "error" => jwks' = "error" /\ cache' = NoSet /\ fetchLog' = fetchLog]_vars
    /\ [](jwks = "ready" => Primed /\ cache # NoSet)
    /\ [](req.mw = "jwks" => jwks = "ready" /\ Primed)

\* The first fetch failed: no JWKS gate exists, the other routes still serve.
C13_Witness ==
    /\ jwks = "error"
    /\ fetchLog.last = "failed"
    /\ req.mw = "legacy"

---------------------------------------------------------------------------
(* C14 *)

\* What a lookup of keyID in the cached set answers.
Lookup(keyID) == LookupKeyID(CacheGet(cache).set, keyID)

\* C14: once primed, a lookup by key id finds a key exactly when the id is
\* in the most recent set that was fetched successfully, and the key is the
\* one that set holds; a failed refresh leaves the cached set as it was.
C14_LookupFollowsLastFetch ==
    /\ [](jwks = "ready" =>
            /\ CacheGet(cache).err = Nil
            /\ \A keyID \in Kids \cup {"k0"} :
                IF \E e \in fetchLog.lastGood : e.kid = keyID
                THEN /\ Lookup(keyID).found
                     /\ [kid |-> keyID, key |-> Lookup(keyID).key] \in fetchLog.lastGood
                ELSE Lookup(keyID) = [key |-> Nil, found |-> FALSE])
    /\ [][(jwks = "ready" /\ fetchLog'.last = "failed") => cache' = cache]_vars

\* After a failed refresh the set fetched before it, holding k2 and not k1,
\* is still the one looked up.
C14_Witness ==
    /\ jwks = "ready"
    /\ fetchLog.last = "failed"
    /\ Lookup(KidName(2)) = [key |-> RSAPub(2), found |-> TRUE]
    /\ ~Lookup(KidName(1)).found

---------------------------------------------------------------------------
(* C15 *)

---------------------------------------------------------------------------
(* C16 *)

\* The step in which Start closes the registered ready channel.
ReadySignalled == readyChan # "closed" /\ readyChan' = "closed"

\* The port the listener of the running Start call is bound to, as ":port".
ListenerPort == SubSeq(listener, Len(<<"[", ":", ":", "]">>) + 1, Len(listener))

\* C16: Start closes the ready channel only when the listener is bound and
\* its address recorded, and before it serves; while that Start call runs,
\* whoever sees the channel closed gets the bound port from GetHTTPPort (the
\* picked port, not 0); the signal and the readiness flag do not touch each
\* other.
C16_ReadySignalAfterBind ==
    /\ [][ReadySignalled =>
            /\ listener # NoListener
            /\ actualAddr = listener
            /\ ~srv.listening
            /\ startPc' = "signalled"]_vars
    /\ []((readyChan = "closed" /\ startPc \in {"signalled", "serving"}) =>
            /\ GetHTTPPort = ListenerPort
            /\ GetHTTPPort # <<":", "0">>)
    /\ [][readyChan' # readyChan => isReady' = isReady]_vars
    /\ [][isReady' # isReady => readyChan' = readyChan]_vars

\* A server configured with port 0 is serving, its channel is closed, the
\* picked port is reported, and the service is not ready.
C16_Witness ==
    /\ readyChan = "closed"
    /\ startPc = "serving"
    /\ HTTPPort = <<":", "0">>
    /\ GetHTTPPort = <<":", "4", "9", "1", "5", "3">>
    /\ ~isReady

---------------------------------------------------------------------------
(* C17 *)

\* Start has bound its listener and has not returned.
StartRunning == startPc \in {"bound", "recorded", "signalled", "serving"}

\* C17: Start blocks: once it serves it leaves only by returning, nil when
\* Shutdown was invoked and an error when Serve failed otherwise; it never
\* returns nil without a Shutdown, never reports the closing of the server
\* as an error, and after Shutdown is invoked a Start that reached Serve
\* eventually returns nil.
C17_StartBlocksUntilClosed ==
    /\ [][(startPc = "serving" /\ startPc' # "serving") =>
            startPc' = IF srv.inShutdown THEN "returnedNil" ELSE "returnedErr"]_vars
    /\ [][(startPc' # startPc /\ startPc' = "returnedNil") =>
            StartRunning /\ srv.inShutdown]_vars
    /\ [][(StartRunning /\ startPc' = "returnedErr") =>
            startPc = "serving" /\ ~srv.inShutdown]_vars
    /\ ((startPc \in {"signalled", "serving"} /\ srv.inShutdown) ~> startPc = "returnedNil")

\* Start was serving, Shutdown was invoked and has returned, Start returned nil.
C17_Witness ==
    /\ startPc = "returnedNil"
    /\ srv.inShutdown
    /\ shutdownRet = "nil"
    /\ actualAddr # <<>>

---------------------------------------------------------------------------
(* C18 *)

\* The step in which Shutdown returns.
ShutdownReturned == shutdownPc = "draining" /\ shutdownPc' = "idle"

\* C18: once Shutdown has begun no connection is accepted; the Shutdown
\* steps end no request being served, which can still complete; Shutdown
\* returns nil only when no request is being served, and an error when it
\* returns while one still is (its deadline expired first).
C18_GracefulShutdown ==
    /\ [](srv.inShutdown => ~srv.listening)
    /\ [][inflight' > inflight => srv.listening /\ ~srv.inShutdown]_vars
    /\ [][(shutdownPc' # shutdownPc) => inflight' = inflight]_vars
    /\ []((inflight > 0 /\ startPc # "panicked") => ENABLED Finish)
    /\ [][ShutdownReturned =>
            shutdownRet' = IF inflight = 0 THEN "nil" ELSE "err"]_vars
    /\ [](shutdownRet = "nil" => inflight = 0)

\* Shutdown returned an error while a request was still being served.
C18_Witness ==
    /\ shutdownPc = "idle"
    /\ shutdownRet = "err"
    /\ srv.inShutdown
    /\ inflight = 1

---------------------------------------------------------------------------
(* C19 *)

\* The values stored in the flag so far: false by NewBaseServer, and the
\* arguments of the SetReady calls.
WrittenValues == {FALSE} \cup (IF setReadyLog.everTrue THEN {TRUE} ELSE {})

\* The /readyz response for a flag value.
ReadyzResponse(b) ==
    IF b THEN [path |-> "/readyz", status |-> StatusOK, body |-> "READY"]
    ELSE [path |-> "/readyz", status |-> StatusServiceUnavailable, body |-> "NOT READY"]

\* C19: with SetReady calls and /readyz probes interleaved in any order, the
\* flag only ever holds a boolean that was stored, every probe answers for
\* a stored value, namely the last one stored when it reads, and a later
\* store does not alter an answer already given.
C19_ReadyzReadsWholeValue ==
    /\ [](isReady \in WrittenValues)
    /\ [][ReadyzAnswered =>
            /\ probe' \in {ReadyzResponse(b) : b \in WrittenValues}
            /\ probe' = ReadyzResponse(LastSetReady)]_vars
    /\ [][isReady' # isReady => probe' = probe]_vars

\* A probe answered READY, and the flag was cleared after it.
C19_Witness ==
    /\ probe = ReadyzResponse(TRUE)
    /\ ~isReady
    /\ setReadyLog.last = "false"

---------------------------------------------------------------------------
(* C20 *)

\* The step in which the second request is served.
ServedOther == other.req = NoReq /\ other'.req # NoReq

\* The first request slot.
firstSlot == <<req, resp, nextCalls, nextCtx, seen, diag>>

\* C20: serving a request, failing or not, changes neither the cached key
\* set (nor the secret, nor the state of the middleware) nor anything of a
\* request served at the same time; and each request is let through or
\* refused with 401 by its own header and token and the secret or key set
\* current when it is verified, whatever the other request was.
C20_FailuresContained ==
    /\ [][(firstSlot' # firstSlot \/ other' # other) =>
            /\ cache' = cache
            /\ jwtSecret' = jwtSecret
            /\ jwks' = jwks
            /\ fetchLog' = fetchLog]_vars
    /\ [][firstSlot' # firstSlot => other' = other]_vars
    /\ [][other' # other => firstSlot' = firstSlot]_vars
    /\ [][Served =>
            IF AllChecksPass(req', jwtSecret, cache)
            THEN /\ nextCalls' = 1
                 /\ resp' = DownstreamResponse
                 /\ seen' = SeenIdentity(BearerJWT(req').sub.v)
            ELSE /\ nextCalls' = 0
                 /\ Rejected401(resp')
                 /\ ~seen'.ran]_vars
    /\ [][ServedOther =>
            IF AllChecksPass(other'.req, jwtSecret, cache)
            THEN /\ other'.nextCalls = 1
                 /\ other'.resp = DownstreamResponse
                 /\ other'.seen = SeenIdentity(BearerJWT(other'.req).sub.v)
            ELSE /\ other'.nextCalls = 0
                 /\ Rejected401(other'.resp)
                 /\ ~other'.seen.ran]_vars

\* A request refused with 401 and a request let through are served at the
\* same time by the JWKS gate.
C20_Witness ==
    /\ req.mw = "jwks"
    /\ Rejected401(resp)
    /\ nextCalls = 0
    /\ other.req.mw = "jwks"
    /\ other.nextCalls = 1
    /\ other.seen = SeenIdentity("user-456")

---------------------------------------------------------------------------
(* C21 *)

\* The step in which a refresh of the key set ends.
Refreshed == jwks = "ready" /\ firstSlot' = firstSlot /\ other' = other

\* C21: once the middleware is built, verifying a request never goes to the
\* key source: the cache.Get of a request served by the JWKS gate, in either
\* of two slots served at the same time, answers from the cached set without
\* fetching, and a fetch is only ever made by the constructor or by a
\* refresh.
C21_NoFetchOnRequestPath ==
    /\ [](jwks = "ready" => ~CacheGet(cache).fetch /\ CacheGet(cache).set = fetchLog.lastGood)
    /\ [][(Served /\ req'.mw = "jwks") =>
            ~CacheGet(cache).fetch /\ fetchLog' = fetchLog /\ cache' = cache]_vars
    /\ [][(ServedOther /\ other'.req.mw = "jwks") =>
            ~CacheGet(cache).fetch /\ fetchLog' = fetchLog /\ cache' = cache]_vars
    /\ [][fetchLog' # fetchLog => Constructed \/ Refreshed]_vars

\* Two requests are verified at the same time against the cached set, after
\* a refresh that failed.
C21_Witness ==
    /\ req.mw = "jwks"
    /\ diag.verifyKey # Nil
    /\ other.req.mw = "jwks"
    /\ other.nextCalls = 1
    /\ fetchLog.last = "failed"

---------------------------------------------------------------------------
(* C22 *)

\* Shutdown was called on the service and has returned.
ShutDown == srv.inShutdown /\ shutdownPc = "idle" /\ shutdownRet # "none"

\* C22: after the service has shut down no refresh of the key set is made:
\* no step taken after Shutdown returned fetches the key set again.
C22_NoRefreshAfterShutdown ==
    [][ShutDown => fetchLog' = fetchLog /\ cache' = cache]_vars

---------------------------------------------------------------------------
(* C23 *)

\* A step of a Start or of a Shutdown call.
LifecycleStep ==
    \/ startPc' # startPc
    \/ starts' # starts
    \/ shutdownPc' # shutdownPc
    \/ shutdownRet' # shutdownRet
    \/ srv' # srv
    \/ listener' # listener
    \/ actualAddr' # actualAddr

\* C23: no step of Start or Shutdown writes the readiness flag; the flag
\* changes only in a SetReady call; and a /readyz probe answered after
\* Shutdown began still reports what the last SetReady call set.
C23_LifecycleKeepsReadiness ==
    /\ [][LifecycleStep => isReady' = isReady /\ setReadyLog' = setReadyLog]_vars
    /\ [][isReady' # isReady => setReadyLog' # setReadyLog /\ ~LifecycleStep]_vars
    /\ [][(ReadyzAnswered /\ srv.inShutdown) => probe' = ReadyzResponse(LastSetReady)]_vars

\* Shutdown is draining a request and /readyz has answered READY: nobody
\* called SetReady(false).
C23_Witness ==
    /\ shutdownPc = "draining"
    /\ inflight > 0
    /\ isReady
    /\ probe = ReadyzResponse(TRUE)

---------------------------------------------------------------------------
(* C24 *)

\* The step in which Start executes close(s.readyChan), or skips it for a
\* nil channel.
SignalStep == startPc = "recorded" /\ startPc' # "recorded"

\* C24: over every sequence of Start and Shutdown calls on a server with a
\* registered ready channel, Start never closes a channel that is already
\* closed.
C24_ClosedAtMostOnce ==
    [][SignalStep => readyChan # "closed"]_vars

---------------------------------------------------------------------------
(* C25 *)

\* The step in which Start returns the error of net.Listen.
BindFailed ==
    /\ startPc \in {"idle", "returnedNil", "returnedErr"}
    /\ starts' # starts
    /\ startPc' = "returnedErr"

\* C25: when net.Listen fails Start returns an error in that very step and
\* changes nothing else: the channel is not closed, no address is recorded
\* and GetHTTPPort answers as before; while no Start has bound a listener,
\* GetHTTPPort is the configured port with its colon, the channel is not
\* closed, and no connection is accepted or served.
C25_FailedBindChangesNothing ==
    /\ [][BindFailed =>
            /\ readyChan' = readyChan
            /\ actualAddr' = actualAddr
            /\ listener' = listener
            /\ srv' = srv
            /\ inflight' = inflight
            /\ isReady' = isReady
            /\ HTTPPort' = HTTPPort
            /\ GetHTTPPort' = GetHTTPPort]_vars
    /\ []((listener = NoListener /\ actualAddr = <<>>) =>
            /\ GetHTTPPort = HTTPPort
            /\ HasPrefix(GetHTTPPort, <<":">>)
            /\ readyChan # "closed"
            /\ ~srv.listening
            /\ inflight = 0)

\* Every Start call failed to bind on a server with a registered channel:
\* the channel is still open and the configured port is reported.
C25_Witness ==
    /\ startPc = "returnedErr"
    /\ starts = MaxStarts
    /\ actualAddr = <<>>
    /\ readyChan = "open"
    /\ GetHTTPPort = <<":", "8", "0", "8", "0">>

=============================================================================
